---- MODULE Spec2Model ----
(***************************************************************************)
(* Model of the CPU benchmark harness of src/main.py: the timed loops      *)
(* benchmark_math / benchmark_integer, the thread and process fan-out      *)
(* executors, and run_series with its statistics.                          *)
(*                                                                         *)
(* Process 0 is the main thread (run_series and whatever it calls);        *)
(* processes 1..MaxWorkers are the worker threads / worker processes of    *)
(* the current fan-out.  time.perf_counter() is a monotonic clock: every   *)
(* call returns a value not smaller than the previous one.  Rates are      *)
(* exact rationals <<numerator, denominator>> in lowest terms.             *)
(***************************************************************************)
EXTENDS Integers, Sequences, FiniteSets, TLC

\* ---------------------------------------------------------------- bounds
MaxSeries == 2
MaxDuration == 2
MaxWorkers == 2
MaxClock == 4
MaxOps == 1
PipeCapacity == 1
MaxArg == 1
SqrtScale == 2

VARIABLES
  args,            \* the call run_series(test_function, series, duration, **kwargs)
  clock,           \* last value returned by time.perf_counter()
  random_state,    \* random_state[g]: draws taken from generator instance g
  pc,              \* pc[p]: position of process p (0 = main thread)
  frame,           \* frame[p]: locals of the timed loop run by p
  i,               \* run_series: number of completed loop iterations
  result,          \* run_series: the tuple returned by test_function
  series_results,  \* run_series: results (the ops/sec samples)
  log,             \* the per-trial lines written by logging.info (line 155)
  avg,             \* run_series: avg
  stdev,           \* run_series: stdev (fixed point, units of 1/SqrtScale)
  err,             \* exception that ended run_series, or "none"
  start,           \* fan-out executor: start
  threads,         \* fan-out executor: threads / processes (worker ids)
  joined,          \* fan-out executor: number of workers joined so far
  results,         \* threaded_benchmark: results (the shared list)
  queue,           \* multiprocess_benchmark: data delivered to the queue's pipe
  qbuffer,         \* qbuffer[w]: items put by worker w, not yet fed to the pipe
  total_ops,       \* fan-out executor: total_ops
  elapsed,         \* fan-out executor: elapsed
  join_time,       \* clock reading when the join loop was left (history)
  workload         \* lines 34-41 run on given a, b, c: position and locals

vars == <<args, clock, random_state, pc, frame, i, result, series_results, log, avg, stdev,
          err, start, threads, joined, results, queue, qbuffer, total_ops,
          elapsed, join_time, workload>>

\* the locals of run_series, and those of the fan-out executors
seriesVars == <<i, series_results, log, avg, stdev, err>>
fanVars == <<start, threads, joined, results, queue, qbuffer, total_ops, elapsed>>

Workers == 1..MaxWorkers
Procs == 0..MaxWorkers

SingleTests == {"benchmark_math", "benchmark_integer"}
FanOutTests == {"threaded_benchmark", "multiprocess_benchmark"}

\* the calls main() makes to run_series (lines 172-185): the two timed loops
\* on their own and the two fan-outs over benchmark_math.  Every argument is
\* drawn from a small range that includes the degenerate values 0 and -1
SeriesCalls ==
  {[test |-> t, calc |-> t, series |-> s, duration |-> d, workers |-> 1] :
      t \in SingleTests, s \in 0..MaxSeries, d \in -1..MaxDuration}
  \cup
  {[test |-> t, calc |-> "benchmark_math", series |-> s, duration |-> d,
    workers |-> 1] :
      t \in FanOutTests, s \in 0..MaxSeries, d \in -1..MaxDuration}

\* one trial of a fan-out over any number of workers
FanOutCalls ==
  {[test |-> t, calc |-> "benchmark_math", series |-> 1, duration |-> d,
    workers |-> k] :
      t \in FanOutTests, d \in -1..MaxDuration, k \in -1..MaxWorkers}

\* ------------------------------------------------------------ arithmetic
Abs(n) == IF n < 0 THEN -n ELSE n

RECURSIVE GCD(_, _)
GCD(a, b) == IF b = 0 THEN a ELSE GCD(b, a % b)

\* the rational n/d (d # 0) in lowest terms with a positive denominator
Rat(n, d) ==
  LET s == IF d < 0 THEN -1 ELSE 1
      g == GCD(Abs(n), Abs(d))
  IN  <<(s * n) \div g, (s * d) \div g>>

RatZero == <<0, 1>>
LCM(a, b) == (a \div GCD(a, b)) * b
RatAdd(x, y) ==
  LET l == LCM(x[2], y[2])
  IN  Rat(x[1] * (l \div x[2]) + y[1] * (l \div y[2]), l)
RatNeg(x) == <<-x[1], x[2]>>
RatSub(x, y) == RatAdd(x, RatNeg(y))
RatMul(x, y) == Rat(x[1] * y[1], x[2] * y[2])
RatDivInt(x, n) == Rat(x[1], x[2] * n)

RECURSIVE SumSeq(_)
SumSeq(s) == IF s = <<>> THEN 0 ELSE Head(s) + SumSeq(Tail(s))

RECURSIVE RatSum(_)
RatSum(s) == IF s = <<>> THEN RatZero ELSE RatAdd(Head(s), RatSum(Tail(s)))

\* floor of the square root of a natural number
ISqrt(n) == CHOOSE r \in 0..n : r * r <= n /\ (r + 1) * (r + 1) > n

Ok(v) == [exc |-> "none", val |-> v]
Raise(e, v) == [exc |-> e, val |-> v]

\* ops / dur on numbers: raises ZeroDivisionError when dur is zero
truediv(ops, dur) ==
  IF dur = 0 THEN Raise("ZeroDivisionError", RatZero) ELSE Ok(Rat(ops, dur))

\* a mean that divides by n - 1
mean_bessel(data) ==
  IF Len(data) < 1 THEN Raise("StatisticsError", RatZero)
  ELSE IF Len(data) = 1 THEN Ok(RatSum(data))
  ELSE Ok(RatDivInt(RatSum(data), Len(data) - 1))

\* a mean that takes the mean of no data to be zero
mean_or_zero(data) ==
  IF Len(data) < 1 THEN Ok(RatZero)
  ELSE Ok(RatDivInt(RatSum(data), Len(data)))

\* statistics.mean: the exact sum divided by n; raises on empty data
mean(data) ==
  IF Len(data) < 1 THEN Raise("StatisticsError", RatZero)
  ELSE Ok(RatDivInt(RatSum(data), Len(data)))

\* statistics.variance: sum of squared deviations from the mean over n - 1
variance(data) ==
  LET m == mean(data).val
      sq == [j \in 1..Len(data) |->
               RatMul(RatSub(data[j], m), RatSub(data[j], m))]
  IN  RatDivInt(RatSum(sq), Len(data) - 1)

\* statistics.stdev: square root of the sample variance, rounded down to a
\* multiple of 1/SqrtScale; raises when there are fewer than two data points
statistics_stdev(data) ==
  IF Len(data) < 2 THEN Raise("StatisticsError", 0)
  ELSE LET v == variance(data)
       IN  Ok(ISqrt((v[1] * SqrtScale * SqrtScale) \div v[2]))

\* ------------------------------------------------------------------ clock
\* time.perf_counter(): the current value of the monotonic clock
perf_counter == clock

\* a clock that may also be set back, as a wall clock can be
tick_wall_clock ==
  /\ clock' \in {c \in {clock - 1, clock + 1} : c \in 0..MaxClock}
  /\ UNCHANGED <<args, workload, join_time, random_state, pc, frame, result, seriesVars, fanVars>>

\* time passes: the monotonic clock only moves forward.  Any advance between
\* two readings of the clock is a number of ticks
tick ==
  /\ clock < MaxClock
  /\ clock' = clock + 1
  /\ UNCHANGED <<args, workload, join_time, random_state, pc, frame, result, seriesVars, fanVars>>

\* ----------------------------------------------------- the float workload
\* Reals are fixed-point numbers in units of 1/Fx, rounded toward zero; the
\* arguments a, b, c are whole numbers
Fx == 10

\* math.sqrt of a whole number n >= 0
math_sqrt(n) == Ok(ISqrt(n * Fx * Fx))

\* math.sin of a whole number of radians
math_sin(c) ==
  LET s == CASE Abs(c) = 0 -> 0
             [] Abs(c) = 1 -> 8
             [] Abs(c) = 2 -> 9
             [] OTHER -> 1
  IN  Ok(IF c < 0 THEN -s ELSE s)

\* math.log of a whole number: a math domain error unless x > 0
math_log(x) ==
  IF x <= 0 THEN Raise("ValueError", 0)
  ELSE Ok(CASE x = 1 -> 0
            [] x = 2 -> 6
            [] x = 3 -> 10
            [] OTHER -> 13)

\* math.pow(r, 1.5) of a fixed-point r > 0: the square root of r cubed
math_pow(r) == ISqrt((r * r * r) \div Fx)

\* benchmark_math, lines 37-40: the try statement
workload_try ==
  /\ workload.pc = "try"
  /\ LET root == math_sqrt(workload.a * workload.a + workload.b * workload.b)
         sine == math_sin(workload.c)
         logarithm == math_log(workload.a + 1)
     IN  workload' =
           IF "ValueError" \in {root.exc, sine.exc, logarithm.exc}
           THEN [workload EXCEPT !.pc = "pow", !.result = 0]
           ELSE [workload EXCEPT !.pc = "pow",
                                 !.result = root.val + sine.val + logarithm.val]
  /\ UNCHANGED <<args, clock, random_state, pc, frame, result, seriesVars,
                 fanVars, join_time>>

\* benchmark_math, line 41
workload_pow ==
  /\ workload.pc = "pow"
  /\ workload' = [workload EXCEPT
                    !.pc = "done",
                    !.result = IF workload.result > 0
                               THEN math_pow(workload.result) ELSE 0]
  /\ UNCHANGED <<args, clock, random_state, pc, frame, result, seriesVars,
                 fanVars, join_time>>

\* ------------------------------------------------------------ initial state
NoFrame == [start |-> 0, operations |-> 0, elapsed |-> 0]

NoWorkload == [pc |-> "off", a |-> 0, b |-> 0, c |-> 0, result |-> 0]

InitEngine(calls) ==
  /\ args \in calls
  /\ clock = 0
  /\ random_state = [g \in Procs |-> 0]
  /\ pc = [p \in Procs |-> IF p = 0 THEN "series" ELSE "idle"]
  /\ frame = [p \in Procs |-> NoFrame]
  /\ i = 0
  /\ result = <<>>
  /\ series_results = <<>>
  /\ log = <<>>
  /\ avg = RatZero
  /\ stdev = 0
  /\ err = "none"
  /\ start = 0
  /\ threads = <<>>
  /\ joined = 0
  /\ results = <<>>
  /\ queue = <<>>
  /\ qbuffer = [w \in Workers |-> <<>>]
  /\ total_ops = 0
  /\ elapsed = 0
  /\ join_time = 0

InitWith(calls) ==
  /\ workload = NoWorkload
  /\ InitEngine(calls)

\* -------------------------------------------------------------- timed loop
\* where a finished timed loop returns to: run_series (main thread),
\* worker_benchmark (thread) or process_worker (process)
AfterCall(p) ==
  IF p = 0 THEN "rate"
  ELSE IF args.test = "threaded_benchmark" THEN "append" ELSE "put"

\* a loop test that still admits an iteration at the deadline itself
LoopContinuesInclusive(now, p) == now - frame[p].start <= args.duration

\* the loop test of lines 33 and 56
LoopContinues(now, p) == now - frame[p].start < args.duration

\* an elapsed time cut off at the requested duration
LoopElapsedClamped(now, p) ==
  IF now - frame[p].start > args.duration THEN args.duration
  ELSE now - frame[p].start

\* the elapsed time of lines 43 and 63
LoopElapsed(now, p) == now - frame[p].start

\* the frame of p once the timed loop has returned (operations, e): the
\* local start is gone
Returned(p, e) == [start |-> 0, operations |-> frame[p].operations, elapsed |-> e]

\* benchmark_math, lines 31-32
benchmark_math_start(p) ==
  /\ pc[p] = "bm_start"
  /\ frame' = [frame EXCEPT ![p] = [start |-> perf_counter, operations |-> 0,
                                    elapsed |-> 0]]
  /\ pc' = [pc EXCEPT ![p] = "bm_loop"]
  /\ UNCHANGED <<args, workload, join_time, random_state, clock, result, seriesVars, fanVars>>

\* benchmark_math, lines 34-36: the random module's generator that p draws
\* from.  random.random() uses the one generator instance of the module:
\* instance 0 belongs to the main process and is the one every thread of it
\* sees; a worker process has its own copy of the module, instance w
Generator(p) ==
  IF p # 0 /\ args.test = "multiprocess_benchmark" THEN p ELSE 0

\* benchmark_math, lines 34-36: a, b and c are three draws per iteration
DrawsPerOp == 3

Draw(g) == [random_state EXCEPT ![g] = @ + DrawsPerOp]

\* multiprocess_benchmark, line 121: the started process holds a generator
\* of its own, seeded anew in the child
Fork(w) == [random_state EXCEPT ![w] = 0]

\* benchmark_math, lines 33-42: one evaluation of the loop test and, when it
\* holds, one iteration of the body
benchmark_math_loop(p) ==
  /\ pc[p] = "bm_loop"
  /\ IF LoopContinues(perf_counter, p)
     THEN /\ frame[p].operations < MaxOps
          /\ frame' = [frame EXCEPT ![p].operations = @ + 1]
          /\ random_state' = Draw(Generator(p))
          /\ pc' = pc
     ELSE /\ frame' = frame
          /\ random_state' = random_state
          /\ pc' = [pc EXCEPT ![p] = "bm_end"]
  /\ UNCHANGED <<args, workload, join_time, clock, result, seriesVars, fanVars>>

\* benchmark_math, lines 43-44
benchmark_math_end(p) ==
  /\ pc[p] = "bm_end"
  /\ LET e == LoopElapsed(perf_counter, p)
     IN  /\ frame' = [frame EXCEPT ![p] = Returned(p, e)]
         /\ result' = IF p = 0 THEN <<frame[p].operations, e>> ELSE result
  /\ pc' = [pc EXCEPT ![p] = AfterCall(p)]
  /\ UNCHANGED <<args, workload, join_time, random_state, clock, seriesVars, fanVars>>

\* benchmark_integer, lines 54-55
benchmark_integer_start(p) ==
  /\ pc[p] = "bi_start"
  /\ frame' = [frame EXCEPT ![p] = [start |-> perf_counter, operations |-> 0,
                                    elapsed |-> 0]]
  /\ pc' = [pc EXCEPT ![p] = "bi_loop"]
  /\ UNCHANGED <<args, workload, join_time, random_state, clock, result, seriesVars, fanVars>>

\* benchmark_integer, lines 56-62
benchmark_integer_loop(p) ==
  /\ pc[p] = "bi_loop"
  /\ IF LoopContinues(perf_counter, p)
     THEN /\ frame[p].operations < MaxOps
          /\ frame' = [frame EXCEPT ![p].operations = @ + 1]
          /\ pc' = pc
     ELSE /\ frame' = frame
          /\ pc' = [pc EXCEPT ![p] = "bi_end"]
  /\ UNCHANGED <<args, workload, join_time, random_state, clock, result, seriesVars, fanVars>>

\* benchmark_integer, lines 63-64
benchmark_integer_end(p) ==
  /\ pc[p] = "bi_end"
  /\ LET e == LoopElapsed(perf_counter, p)
     IN  /\ frame' = [frame EXCEPT ![p] = Returned(p, e)]
         /\ result' = IF p = 0 THEN <<frame[p].operations, e>> ELSE result
  /\ pc' = [pc EXCEPT ![p] = AfterCall(p)]
  /\ UNCHANGED <<args, workload, join_time, random_state, clock, seriesVars, fanVars>>

\* the entry point of calc_function
CalcEntry(f) == IF f = "benchmark_math" THEN "bm_start" ELSE "bi_start"

\* a loop that runs once too often
InRangeInclusive(j, n) == j <= n

\* for _ in range(n): the loop has another iteration after j of them
InRange(j, n) == j < n

\* ------------------------------------------------------ thread fan-out
\* a worker is running from its launch until it has finished
Running(w) == pc[w] \notin {"idle", "done", "crashed"}

\* threaded_benchmark, lines 84-86
threaded_start ==
  /\ pc[0] = "t_start"
  /\ threads' = <<>>
  /\ joined' = 0
  /\ results' = <<>>
  /\ start' = perf_counter
  /\ pc' = [p \in Procs |-> IF p = 0 THEN "t_launch" ELSE "idle"]
  /\ frame' = [p \in Procs |-> NoFrame]
  /\ total_ops' = 0
  /\ elapsed' = 0
  /\ join_time' = 0
  /\ UNCHANGED <<args, workload, random_state, clock, result, seriesVars, queue, qbuffer>>

\* threaded_benchmark, lines 87-90: one iteration of the launch loop, or
\* its exit once range(num_threads) is exhausted
threaded_launch ==
  /\ pc[0] = "t_launch"
  /\ IF InRange(Len(threads), args.workers)
     THEN LET w == Len(threads) + 1
          IN  /\ threads' = Append(threads, w)
              /\ pc' = [pc EXCEPT ![w] = CalcEntry(args.calc)]
     ELSE /\ threads' = threads
          /\ pc' = [pc EXCEPT ![0] = "t_join"]
  /\ UNCHANGED <<args, workload, join_time, random_state, clock, frame, result, seriesVars, start, joined,
                 results, queue, qbuffer, total_ops, elapsed>>

\* a join that does not wait
ThreadJoinedNoWait(w) == TRUE

\* Thread.join() returns once the thread has finished, normally or not
ThreadJoined(w) == pc[w] \in {"done", "crashed"}

\* threaded_benchmark, lines 91-92: one iteration of the join loop (it
\* blocks until that thread has finished), or its exit after the last thread
threaded_join ==
  /\ pc[0] = "t_join"
  /\ IF InRange(joined, Len(threads))
     THEN /\ ThreadJoined(threads[joined + 1])
          /\ joined' = joined + 1
          /\ pc' = pc
     ELSE /\ joined' = joined
          /\ pc' = [pc EXCEPT ![0] = "t_sum"]
  /\ join_time' = IF InRange(joined, Len(threads)) THEN join_time ELSE clock
  /\ UNCHANGED <<args, workload, random_state, clock, frame, result, seriesVars, start, threads,
                 results, queue, qbuffer, total_ops, elapsed>>

\* threaded_benchmark, line 93
threaded_sum ==
  /\ pc[0] = "t_sum"
  /\ total_ops' = SumSeq(results)
  /\ pc' = [pc EXCEPT ![0] = "t_elapsed"]
  /\ UNCHANGED <<args, workload, join_time, random_state, clock, frame, result, seriesVars, start, threads,
                 joined, results, queue, qbuffer, elapsed>>

\* a return whose worker count is the number of results collected
threaded_return_reported ==
  /\ pc[0] = "t_elapsed"
  /\ elapsed' = perf_counter - start
  /\ result' = <<total_ops, perf_counter - start, Len(results)>>
  /\ pc' = [pc EXCEPT ![0] = "rate"]
  /\ UNCHANGED <<args, workload, join_time, random_state, clock, frame, seriesVars, start, threads, joined,
                 results, queue, qbuffer, total_ops>>

\* threaded_benchmark, lines 94-95
threaded_return ==
  /\ pc[0] = "t_elapsed"
  /\ elapsed' = perf_counter - start
  /\ result' = <<total_ops, perf_counter - start, args.workers>>
  /\ pc' = [pc EXCEPT ![0] = "rate"]
  /\ UNCHANGED <<args, workload, join_time, random_state, clock, frame, seriesVars, start, threads, joined,
                 results, queue, qbuffer, total_ops>>

\* a worker that stores its count in place of the list's contents
ListStore(lst, x) == <<x>>

\* list.append on the shared list: one indivisible step of the interpreter
ListAppend(lst, x) == Append(lst, x)

\* worker_benchmark, lines 71-72: the timed loop has returned (ops, _)
worker_append(w) ==
  /\ pc[w] = "append"
  /\ results' = ListAppend(results, frame[w].operations)
  /\ frame' = [frame EXCEPT ![w].elapsed = 0]
  /\ pc' = [pc EXCEPT ![w] = "done"]
  /\ UNCHANGED <<args, workload, join_time, random_state, clock, result, seriesVars, start, threads, joined,
                 queue, qbuffer, total_ops, elapsed>>

\* ----------------------------------------------------- process fan-out
\* multiprocess_benchmark, lines 116-118
multiprocess_start ==
  /\ pc[0] = "p_start"
  /\ threads' = <<>>
  /\ joined' = 0
  /\ queue' = <<>>
  /\ qbuffer' = [w \in Workers |-> <<>>]
  /\ start' = perf_counter
  /\ pc' = [p \in Procs |-> IF p = 0 THEN "p_launch" ELSE "idle"]
  /\ frame' = [p \in Procs |-> NoFrame]
  /\ total_ops' = 0
  /\ elapsed' = 0
  /\ join_time' = 0
  /\ UNCHANGED <<args, workload, random_state, clock, result, seriesVars, results>>

\* multiprocess_benchmark, lines 119-122: one iteration of the launch loop,
\* or its exit once range(num_processes) is exhausted
multiprocess_launch ==
  /\ pc[0] = "p_launch"
  /\ IF InRange(Len(threads), args.workers)
     THEN LET w == Len(threads) + 1
          IN  /\ threads' = Append(threads, w)
              /\ random_state' = Fork(w)
              /\ pc' = [pc EXCEPT ![w] = CalcEntry(args.calc)]
     ELSE /\ threads' = threads
          /\ random_state' = random_state
          /\ pc' = [pc EXCEPT ![0] = "p_join"]
  /\ UNCHANGED <<args, workload, join_time, clock, frame, result, seriesVars, start, joined,
                 results, queue, qbuffer, total_ops, elapsed>>

\* a join that does not wait
ProcessJoinedNoWait(w) == TRUE

\* Process.join() returns once the process has exited, normally or not
ProcessJoined(w) == pc[w] \in {"done", "crashed"}

\* multiprocess_benchmark, lines 123-125: one iteration of the join loop, or
\* its exit after the last process
multiprocess_join ==
  /\ pc[0] = "p_join"
  /\ IF InRange(joined, Len(threads))
     THEN /\ ProcessJoined(threads[joined + 1])
          /\ joined' = joined + 1
          /\ pc' = pc
          /\ total_ops' = total_ops
     ELSE /\ joined' = joined
          /\ total_ops' = 0
          /\ pc' = [pc EXCEPT ![0] = "p_empty"]
  /\ join_time' = IF InRange(joined, Len(threads)) THEN join_time ELSE clock
  /\ UNCHANGED <<args, workload, random_state, clock, frame, result, seriesVars, start, threads,
                 results, queue, qbuffer, elapsed>>

\* Queue.empty(): true when nothing can be read from the pipe
QueueEmpty == queue = <<>>

\* multiprocess_benchmark, line 126: the test of the drain loop
multiprocess_empty ==
  /\ pc[0] = "p_empty"
  /\ pc' = [pc EXCEPT ![0] = IF ~QueueEmpty THEN "p_get" ELSE "p_elapsed"]
  /\ UNCHANGED <<args, workload, join_time, random_state, clock, frame, result, seriesVars, fanVars>>

\* multiprocess_benchmark, line 127: Queue.get() blocks until an item can
\* be read from the pipe
multiprocess_get ==
  /\ pc[0] = "p_get"
  /\ queue # <<>>
  /\ total_ops' = total_ops + Head(queue)
  /\ queue' = Tail(queue)
  /\ pc' = [pc EXCEPT ![0] = "p_empty"]
  /\ UNCHANGED <<args, workload, join_time, random_state, clock, frame, result, seriesVars, start, threads,
                 joined, results, qbuffer, elapsed>>

\* multiprocess_benchmark, lines 128-129
multiprocess_return ==
  /\ pc[0] = "p_elapsed"
  /\ elapsed' = perf_counter - start
  /\ result' = <<total_ops, perf_counter - start, args.workers>>
  /\ pc' = [pc EXCEPT ![0] = "rate"]
  /\ UNCHANGED <<args, workload, join_time, random_state, clock, frame, seriesVars, start, threads, joined,
                 results, queue, qbuffer, total_ops>>

\* process_worker, lines 103-104: Queue.put() stores the item in the
\* worker's own buffer, from which the queue's feeder thread sends it
process_put(w) ==
  /\ pc[w] = "put"
  /\ qbuffer' = [qbuffer EXCEPT ![w] = Append(@, frame[w].operations)]
  /\ frame' = [frame EXCEPT ![w].elapsed = 0]
  /\ pc' = [pc EXCEPT ![w] = "exit"]
  /\ UNCHANGED <<args, workload, join_time, random_state, clock, result, seriesVars, start, threads, joined,
                 results, queue, total_ops, elapsed>>

\* the feeder thread of worker w writes one buffered item to the pipe
queue_feed(w) ==
  /\ qbuffer[w] # <<>>
  /\ queue' = Append(queue, Head(qbuffer[w]))
  /\ qbuffer' = [qbuffer EXCEPT ![w] = Tail(@)]
  /\ UNCHANGED <<args, workload, join_time, random_state, clock, pc, frame, result, seriesVars, start, threads,
                 joined, results, total_ops, elapsed>>

\* the feeder thread's write blocks while the pipe is full.  PipeCapacity is
\* the number of results the pipe's buffer holds, scaled down from the
\* operating system's buffer so that a fan-out of MaxWorkers can fill it
queue_feed_bounded(w) ==
  /\ Len(queue) < PipeCapacity
  /\ queue_feed(w)

\* a process that ends without waiting for its feeder thread
MayExitUnflushed(w) == TRUE

\* a process that has put items on a queue ends only after its feeder
\* thread has written all of them to the pipe
MayExit(w) == qbuffer[w] = <<>>

\* process_worker returns (after line 104) and the process exits
process_exit(w) ==
  /\ pc[w] = "exit"
  /\ MayExit(w)
  /\ pc' = [pc EXCEPT ![w] = "done"]
  /\ UNCHANGED <<args, workload, join_time, random_state, clock, frame, result, seriesVars, fanVars>>

\* an unhandled fault ends worker_benchmark / process_worker before its
\* result is appended (line 72) or put (line 104): the thread or process
\* ends, its locals are gone, and nothing is reported
worker_crash(w) ==
  /\ pc[w] \in {"bm_start", "bm_loop", "bm_end", "append", "put"}
  /\ pc' = [pc EXCEPT ![w] = "crashed"]
  /\ frame' = [frame EXCEPT ![w] = NoFrame]
  /\ UNCHANGED <<args, workload, join_time, random_state, clock, result, seriesVars, fanVars>>

\* ------------------------------------------------------------- run_series
\* the entry point of test_function
TestEntry(f) ==
  CASE f = "benchmark_math" -> "bm_start"
    [] f = "benchmark_integer" -> "bi_start"
    [] f = "threaded_benchmark" -> "t_start"
    [] f = "multiprocess_benchmark" -> "p_start"

\* run_series, lines 144-145: the head of the loop over range(series); it
\* calls test_function, or leaves the loop
series_loop ==
  /\ pc[0] = "series"
  /\ pc' = [pc EXCEPT ![0] = IF InRange(i, args.series) THEN TestEntry(args.test)
                             ELSE "stats"]
  /\ UNCHANGED <<args, workload, join_time, random_state, clock, frame, result, seriesVars, fanVars>>

\* a rate that guards only against a negative elapsed time
ops_per_sec_nonneg(ops, dur) ==
  IF dur >= 0 THEN truediv(ops, dur) ELSE Ok(RatZero)

\* run_series, line 153
ops_per_sec(ops, dur) == IF dur > 0 THEN truediv(ops, dur) ELSE Ok(RatZero)

\* a sample list that grows at the front
PrependSample(samples, rate) == <<rate>> \o samples

\* run_series, line 154
AppendSample(samples, rate) == Append(samples, rate)

\* run_series, lines 147-155: unpack the 2-tuple or 3-tuple, compute the
\* rate, append it and log the trial
series_rate ==
  /\ pc[0] = "rate"
  /\ LET ops == result[1]
         dur == result[2]
         extra_info == IF Len(result) = 2 THEN <<>> ELSE <<result[3]>>
         r == ops_per_sec(ops, dur)
     IN  IF r.exc # "none"
         THEN /\ err' = r.exc
              /\ pc' = [pc EXCEPT ![0] = "error"]
              /\ UNCHANGED <<series_results, log, i>>
         ELSE /\ series_results' = AppendSample(series_results, r.val)
              /\ log' = Append(log, [trial |-> i + 1, ops |-> ops, dur |-> dur,
                                     ops_per_sec |-> r.val,
                                     extra_info |-> extra_info])
              /\ i' = i + 1
              /\ pc' = [pc EXCEPT ![0] = "series"]
              /\ err' = err
  /\ UNCHANGED <<args, workload, join_time, random_state, clock, frame, result, avg, stdev, fanVars>>

\* a standard deviation asked for as soon as there is one sample
stdev_of_any(samples) ==
  IF Len(samples) > 0 THEN statistics_stdev(samples) ELSE Ok(0)

\* run_series, line 157
stdev_of(samples) ==
  IF Len(samples) > 1 THEN statistics_stdev(samples) ELSE Ok(0)

\* run_series, lines 156-159
series_stats ==
  /\ pc[0] = "stats"
  /\ LET a == mean(series_results)
         s == stdev_of(series_results)
     IN  IF a.exc # "none"
         THEN /\ err' = a.exc
              /\ pc' = [pc EXCEPT ![0] = "error"]
              /\ UNCHANGED <<avg, stdev>>
         ELSE IF s.exc # "none"
         THEN /\ err' = s.exc
              /\ pc' = [pc EXCEPT ![0] = "error"]
              /\ avg' = a.val
              /\ stdev' = stdev
         ELSE /\ avg' = a.val
              /\ stdev' = s.val
              /\ pc' = [pc EXCEPT ![0] = "done"]
              /\ err' = err
  /\ UNCHANGED <<args, workload, join_time, random_state, clock, frame, result, i, series_results, log, fanVars>>

\* ------------------------------------------------------------------- main
\* main, lines 172-185: the order of the four calls to run_series
NextTest(t) ==
  CASE t = "benchmark_math" -> "benchmark_integer"
    [] t = "benchmark_integer" -> "threaded_benchmark"
    [] t = "threaded_benchmark" -> "multiprocess_benchmark"
    [] OTHER -> "none"

\* main, lines 173-185, and run_series, lines 142-143: run_series has
\* returned its list, and main calls it for the next benchmark with the
\* same series and duration.  An exception leaving run_series is caught
\* nowhere in main, so position "error" has no successor
main_next ==
  /\ pc[0] = "done"
  /\ NextTest(args.test) # "none"
  /\ args' = [args EXCEPT !.test = NextTest(args.test),
                          !.calc = IF NextTest(args.test) \in SingleTests
                                   THEN NextTest(args.test)
                                   ELSE "benchmark_math"]
  /\ pc' = [p \in Procs |-> IF p = 0 THEN "series" ELSE "idle"]
  /\ frame' = [p \in Procs |-> NoFrame]
  /\ i' = 0
  /\ result' = <<>>
  /\ series_results' = <<>>
  /\ log' = <<>>
  /\ avg' = RatZero
  /\ stdev' = 0
  /\ UNCHANGED <<workload, join_time, random_state, clock, err, fanVars>>

\* main, lines 188-192: the general summary, after the fourth series
main_summary ==
  /\ pc[0] = "done"
  /\ NextTest(args.test) = "none"
  /\ pc' = [pc EXCEPT ![0] = "summary"]
  /\ UNCHANGED <<args, workload, join_time, random_state, clock, frame, result, seriesVars, fanVars>>

\* ------------------------------------------------------------ specification
TimedLoop ==
  \/ \E p \in Procs : benchmark_math_start(p)
  \/ \E p \in Procs : benchmark_math_loop(p)
  \/ \E p \in Procs : benchmark_math_end(p)

IntegerLoop ==
  \/ benchmark_integer_start(0)
  \/ benchmark_integer_loop(0)
  \/ benchmark_integer_end(0)

FanOut ==
  \/ threaded_start
  \/ threaded_launch
  \/ threaded_join
  \/ threaded_sum
  \/ threaded_return
  \/ \E w \in Workers : worker_append(w)
  \/ multiprocess_start
  \/ multiprocess_launch
  \/ multiprocess_join
  \/ multiprocess_empty
  \/ multiprocess_get
  \/ multiprocess_return
  \/ \E w \in Workers : process_put(w)
  \/ \E w \in Workers : queue_feed(w)
  \/ \E w \in Workers : process_exit(w)

Series ==
  \/ series_loop
  \/ series_rate
  \/ series_stats

\* run_series over each of the four benchmarks, every fan-out with one worker
Init == InitWith(SeriesCalls)
Next == tick \/ TimedLoop \/ IntegerLoop \/ FanOut \/ Series
Spec == Init /\ [][Next]_vars

\* one trial of a fan-out over benchmark_math with any number of workers
InitFanOut == InitWith(FanOutCalls)
NextFanOut == tick \/ TimedLoop \/ FanOut \/ Series
SpecFanOut == InitFanOut /\ [][NextFanOut]_vars

\* a whole run of main(): the four series in order, then the summary
MainCalls == {c \in SeriesCalls : c.test = "benchmark_math"}
InitMain == InitWith(MainCalls)
NextMain == Next \/ main_next \/ main_summary
SpecMain == InitMain /\ [][NextMain]_vars

\* lines 34-41 of benchmark_math run on injected arguments, which reach
\* beyond the range [0, 1) of random.random()
WorkloadArgs ==
  [pc : {"try"}, a : -(MaxArg + 1)..MaxArg, b : -MaxArg..MaxArg,
   c : -MaxArg..MaxArg, result : {0}]
InitWorkload ==
  /\ workload \in WorkloadArgs
  /\ InitEngine({c \in SeriesCalls : /\ c.test = "benchmark_math"
                                     /\ c.series = 1
                                     /\ c.duration = 1})
NextWorkload == workload_try \/ workload_pow
SpecWorkload == InitWorkload /\ [][NextWorkload]_vars

\* one trial of a fan-out of at least one worker, under a clock that keeps
\* advancing while a timed loop waits for its deadline, a pipe of bounded
\* capacity, and fair scheduling of the main thread and of every worker
tick_live ==
  /\ \/ clock < MaxClock
     \/ \E p \in Procs : pc[p] = "bm_loop" /\ LoopContinues(clock, p)
  /\ clock' = clock + 1
  /\ UNCHANGED <<args, workload, join_time, random_state, pc, frame, result, seriesVars, fanVars>>

MainLive ==
  \/ Series
  \/ threaded_start
  \/ threaded_launch
  \/ threaded_join
  \/ threaded_sum
  \/ threaded_return
  \/ multiprocess_start
  \/ multiprocess_launch
  \/ multiprocess_join
  \/ multiprocess_empty
  \/ multiprocess_get
  \/ multiprocess_return

WorkerLive(w) ==
  \/ benchmark_math_start(w)
  \/ benchmark_math_loop(w)
  \/ benchmark_math_end(w)
  \/ worker_append(w)
  \/ process_put(w)
  \/ queue_feed_bounded(w)
  \/ process_exit(w)

LiveCalls == {c \in FanOutCalls : c.workers >= 1}
InitLive == InitWith(LiveCalls)
NextLive == tick_live \/ MainLive \/ \E w \in Workers : WorkerLive(w)
SpecLive ==
  /\ InitLive
  /\ [][NextLive]_vars
  /\ WF_vars(tick_live)
  /\ WF_vars(MainLive)
  /\ \A w \in Workers : WF_vars(WorkerLive(w))

\* one trial of a fan-out whose workers may fail before they report
\* (benchmark_math does not raise by itself: the fault comes from outside)
CrashCalls == {c \in FanOutCalls : c.duration = 1 /\ c.workers >= 1}
InitCrash == InitWith(CrashCalls)
NextCrash == NextFanOut \/ \E w \in Workers : worker_crash(w)
SpecCrash == InitCrash /\ [][NextCrash]_vars

\* ------------------------------------------------------------------ claims
\* the operation counts of the launched workers, in launch order
WorkerOps == [j \in 1..Len(threads) |-> frame[threads[j]].operations]

AllWorkersDone ==
  /\ Len(threads) = args.workers
  /\ \A j \in 1..Len(threads) : pc[threads[j]] = "done"

\* C1: threaded_benchmark with k >= 1 workers: once every worker has
\* completed, whatever the order of their appends to the shared list, the
\* total_ops it returns is the sum of the k workers' operation counts
C1_ThreadTotalIsSum ==
  ( /\ args.test = "threaded_benchmark"
    /\ args.workers >= 1
    /\ pc[0] = "rate"
    /\ AllWorkersDone )
  => /\ result[1] = SumSeq(WorkerOps)
     /\ Len(results) = args.workers

\* two workers with different counts, the second appended first
C1_Witness ==
  /\ args.test = "threaded_benchmark"
  /\ args.workers = 2
  /\ pc[0] = "rate"
  /\ AllWorkersDone
  /\ results = <<1, 0>>
  /\ frame[1].operations = 0
  /\ frame[2].operations = 1
  /\ result[1] = 1

\* C2: multiprocess_benchmark with k >= 1 workers: once every worker has put
\* its count and exited, the drain loop that follows the joins receives all
\* k counts (total_ops is their sum), and it never ends while a count is
\* still undelivered
C2_DrainReceivesAll ==
  /\ ( /\ args.test = "multiprocess_benchmark"
       /\ args.workers >= 1
       /\ pc[0] = "rate"
       /\ AllWorkersDone )
     => result[1] = SumSeq(WorkerOps)
  /\ ( /\ args.test = "multiprocess_benchmark"
       /\ pc[0] \in {"p_elapsed", "rate"} )
     => /\ queue = <<>>
        /\ \A w \in Workers : qbuffer[w] = <<>>

\* two processes, each reporting a count of one, both drained
C2_Witness ==
  /\ args.test = "multiprocess_benchmark"
  /\ args.workers = 2
  /\ pc[0] = "rate"
  /\ AllWorkersDone
  /\ frame[1].operations = 1
  /\ frame[2].operations = 1
  /\ result[1] = 2

\* C3: in both fan-outs the aggregation (sum of the list, drain of the
\* queue) and the return happen only when no launched worker is running
C3_AggregateAfterJoin ==
  pc[0] \in {"t_sum", "t_elapsed", "p_empty", "p_get", "p_elapsed", "rate"}
  => /\ \A w \in Workers : ~Running(w)
     /\ \A j \in 1..Len(threads) : pc[threads[j]] = "done"
     /\ joined = Len(threads)

\* the queue is being drained after two processes were joined
C3_Witness ==
  /\ pc[0] = "p_get"
  /\ Len(threads) = 2
  /\ joined = 2
  /\ Len(queue) = 2

\* C5: a fan-out asked for k workers launches exactly k of them, returns k
\* as the third element, and its total is the sum of k non-negative counts
C5_ExactlyKWorkers ==
  /\ Len(threads) <= (IF args.workers > 0 THEN args.workers ELSE 0)
  /\ \A w \in Workers : (pc[w] # "idle") <=> (w \in 1..Len(threads))
  /\ pc[0] = "rate"
     => /\ result[3] = args.workers
        /\ args.workers >= 0
           => /\ Len(threads) = args.workers
              /\ Len(WorkerOps) = args.workers
              /\ \A j \in 1..Len(WorkerOps) : WorkerOps[j] >= 0
              /\ result[1] = SumSeq(WorkerOps)

\* a thread fan-out of two workers has returned
C5_Witness ==
  /\ args.test = "threaded_benchmark"
  /\ args.workers = 2
  /\ pc[0] = "rate"
  /\ Len(threads) = 2
  /\ result = <<2, result[2], 2>>

\* C4: for every duration d > 0 the timed loop (benchmark_math,
\* benchmark_integer) returns elapsed >= d, however the clock advances
C4_ElapsedAtLeastDuration ==
  args.duration > 0
  => /\ (args.test \in SingleTests /\ pc[0] = "rate")
        => result[2] >= args.duration
     /\ \A w \in Workers :
          pc[w] \in {"append", "put"} => frame[w].elapsed >= args.duration

\* benchmark_integer has run one iteration and overshot a duration of 2
C4_Witness ==
  /\ args.test = "benchmark_integer"
  /\ args.duration = 2
  /\ pc[0] = "rate"
  /\ result = <<1, 3>>

\* a trial is in progress: the main thread is inside test_function
InTrial == pc[0] \notin {"series", "rate", "stats", "done", "error"}

\* C6: trials run one after another: while trial i+1 is in progress all i
\* earlier trials have returned and their rates are appended, and between
\* two trials no worker of the earlier one is still running
C6_TrialsSequential ==
  /\ InTrial => /\ Len(series_results) = i
                /\ Len(log) = i
                /\ i < args.series
  /\ ~InTrial => \A w \in Workers : ~Running(w)
  /\ \A w \in Workers : Running(w) => w \in 1..Len(threads)

\* the worker of the second trial runs after the first trial was recorded
C6_Witness ==
  /\ args.test = "threaded_benchmark"
  /\ i = 1
  /\ Len(series_results) = 1
  /\ pc[0] = "t_join"
  /\ pc[1] = "bm_loop"

\* C7: run_series with series = S >= 1 returns exactly S samples, sample j
\* being the rate of the j-th trial run
C7_OneSamplePerTrial ==
  (pc[0] = "done" /\ args.series >= 1)
  => /\ Len(series_results) = args.series
     /\ Len(log) = args.series
     /\ \A j \in 1..Len(log) :
          /\ log[j].trial = j
          /\ series_results[j] = log[j].ops_per_sec

\* two trials with different rates, in the order they ran
C7_Witness ==
  /\ pc[0] = "done"
  /\ args.series = 2
  /\ Len(log) = 2
  /\ log[1].ops_per_sec = <<1, 2>>
  /\ log[2].ops_per_sec = <<0, 1>>
  /\ series_results = <<(<<1, 2>>), (<<0, 1>>)>>

\* C8: run_series with series = 1 does not fail and yields stdev = 0
C8_SingleSampleStdevZero ==
  args.series = 1
  => /\ pc[0] # "error"
     /\ err = "none"
     /\ pc[0] = "done" => (stdev = 0 /\ Len(series_results) = 1)

\* a series of one trial with a non-zero rate has been summarised
C8_Witness ==
  /\ args.series = 1
  /\ pc[0] = "done"
  /\ series_results = <<(<<1, 1>>)>>
  /\ avg = <<1, 1>>

\* the bijections of 1..n onto itself
Perms(n) ==
  {f \in [1..n -> 1..n] : \A a, b \in 1..n : f[a] = f[b] => a = b}

\* C9: run_series with series = n >= 2 yields stdev >= 0 and a mean equal to
\* the sum of the n samples divided by n, whatever the order of the samples
C9_MeanIsAverage ==
  (pc[0] = "done" /\ args.series >= 2)
  => LET n == Len(series_results)
     IN  /\ n = args.series
         /\ stdev >= 0
         /\ RatMul(avg, <<n, 1>>) = RatSum(series_results)
         /\ \A f \in Perms(n) :
              mean([j \in 1..n |-> series_results[f[j]]]).val = avg

\* two different samples: a mean between them and a positive deviation
C9_Witness ==
  /\ pc[0] = "done"
  /\ args.series = 2
  /\ series_results = <<(<<0, 1>>), (<<1, 1>>)>>
  /\ avg = <<1, 2>>
  /\ stdev > 0

\* C10: every recorded rate is ops / elapsed when elapsed > 0 and 0 when
\* elapsed <= 0, for 2-tuples and 3-tuples; run_series never divides by zero
C10_RateOrZero ==
  /\ err # "ZeroDivisionError"
  /\ \A j \in 1..Len(log) :
       LET r == log[j].ops_per_sec
       IN  /\ r[2] > 0
           /\ log[j].dur > 0 => r[1] * log[j].dur = log[j].ops * r[2]
           /\ log[j].dur <= 0 => r = RatZero

\* a fan-out (3-tuple result) that measured no elapsed time was recorded
\* with rate 0 and the series completed
C10_Witness ==
  /\ pc[0] = "done"
  /\ Len(log) = 1
  /\ log[1].extra_info = <<1>>
  /\ log[1].dur = 0
  /\ log[1].ops_per_sec = RatZero
  /\ series_results = <<RatZero>>

\* the launched workers that reported, and their counts
Reported == {w \in 1..Len(threads) : pc[w] = "done"}

RECURSIVE SumOps(_)
SumOps(S) ==
  IF S = {} THEN 0
  ELSE LET w == CHOOSE x \in S : TRUE
       IN  frame[w].operations + SumOps(S \ {w})

\* C11: when some workers fail before reporting, the fan-out still returns
\* after joining all of them, raises nothing, totals the counts of exactly
\* the workers that reported, and returns the requested k
C11_FailedWorkersAbsent ==
  /\ err = "none"
  /\ pc[0] # "error"
  /\ pc[0] \in {"t_sum", "t_elapsed", "p_empty", "p_get", "p_elapsed", "rate"}
     => /\ joined = Len(threads)
        /\ \A w \in Workers : ~Running(w)
  /\ pc[0] = "rate"
     => /\ result[1] = SumOps(Reported)
        /\ result[3] = args.workers

\* worker 1 failed, worker 2 reported one operation
C11_Witness ==
  /\ args.test = "multiprocess_benchmark"
  /\ args.workers = 2
  /\ pc[0] = "done"
  /\ pc[1] = "crashed"
  /\ pc[2] = "done"
  /\ frame[2].operations = 1
  /\ result[1] = 1
  /\ result[3] = 2

\* C12: every worker draws from a generator of its own, so a running
\* worker's generator has advanced by that worker's draws and no others
\* (stated for the one trial of a fan-out, whose generators start unused)
C12_OwnGenerator ==
  \A w \in Workers :
    Running(w) => random_state[Generator(w)] = DrawsPerOp * frame[w].operations

\* C13: the elapsed time a fan-out returns runs from its start timestamp to
\* the moment the last worker was joined, and leaves out the time spent
\* summing the list or draining the queue afterwards
C13_ElapsedEndsAtJoin ==
  (args.test \in FanOutTests /\ pc[0] \in {"rate", "stats", "done"})
  => result[2] = join_time - start

\* C14: the timed loop runs its body before it first tests the deadline, so
\* with a duration above zero a finished loop has counted at least one
\* operation, whatever the clock did after the start timestamp
C14_AtLeastOneOperation ==
  \A p \in Procs :
    (args.duration > 0 /\ pc[p] \in {"bm_end", "bi_end"})
    => frame[p].operations >= 1

C16_FanOutReturns ==
  <>(/\ pc[0] \in {"rate", "stats", "done"}
     /\ \A w \in Workers : pc[w] \notin {"bm_start", "bm_loop", "bm_end"})

\* the value C17 gives for arguments a, b, c: a non-positive log argument
\* replaces the log term alone by 0
LogTermOrZero(a) == IF a + 1 <= 0 THEN 0 ELSE math_log(a + 1).val

C18_EmptySeriesFails ==
  args.series = 0
  => /\ args.test = "benchmark_math"
     /\ pc[0] \in {"series", "stats", "error"}
     /\ \A w \in Workers : pc[w] = "idle"
     /\ \A p \in Procs : frame[p] = NoFrame
     /\ result = <<>>
     /\ series_results = <<>>
     /\ log = <<>>
     /\ pc[0] = "error" <=> err = "StatisticsError"

\* run_series(benchmark_math, series = 0) has failed
C18_Witness ==
  /\ args.series = 0
  /\ args.test = "benchmark_math"
  /\ pc[0] = "error"
  /\ err = "StatisticsError"
  /\ series_results = <<>>

\* C19: a duration <= 0 or a worker count <= 0 is run, not rejected: every
\* timed loop leaves on its first deadline test with 0 operations, a fan-out
\* of no workers launches nothing, has nothing to wait for in its join loop
\* and totals 0, the sample of the trial is the rate 0, and nothing is raised
C19_DegenerateArgsRun ==
  (args.duration <= 0 \/ args.workers <= 0)
  => /\ err = "none"
     /\ pc[0] # "error"
     /\ \A p \in Procs : frame[p].operations = 0
     /\ args.workers <= 0
        => /\ threads = <<>>
           /\ joined = 0
           /\ \A w \in Workers : pc[w] = "idle"
     /\ pc[0] \in {"rate", "stats", "done"}
        => /\ result[1] = 0
           /\ result[3] = args.workers
     /\ series_results \in {<<>>, <<RatZero>>}
     /\ pc[0] \in {"stats", "done"} => series_results = <<RatZero>>

\* a fan-out of two processes with duration 0 has run to the end of the
\* series: both workers reported, and the sample is 0
C19_Witness ==
  /\ args.test = "multiprocess_benchmark"
  /\ args.duration = 0
  /\ args.workers = 2
  /\ pc = [p \in Procs |-> "done"]
  /\ total_ops = 0
  /\ series_results = <<RatZero>>
  /\ err = "none"

====
